---- MODULE Spec2Model ----
(***************************************************************************)
(* Model of the ingestion-and-reconciliation core of the automated         *)
(* intelligence platform (snowpipe-streaming-python):                      *)
(*   - ReconciliationManager.reconcile_and_cleanup                         *)
(*     (reconciliation_manager.py), the four SQL steps on the ORDERS and   *)
(*     ORDER_ITEMS tables;                                                 *)
(*   - ParallelStreamingOrchestrator.main / _run_streaming_instance and    *)
(*     PartitionedStreamingApp.generate_and_stream_orders                  *)
(*     (parallel_streaming_orchestrator.py);                               *)
(*   - SnowpipeStreamingManager (snowpipe_streaming_manager.py).           *)
(*                                                                         *)
(* Tables are bags (multisets) of rows: a function from the rows present   *)
(* to their positive number of copies.  An ORDERS row is the triple of     *)
(* columns the SQL reads (order_id, order_date, total_amount); an          *)
(* ORDER_ITEMS row is read by its order_id column only, so the items table *)
(* is a bag of order_id values, one copy per item row.                     *)
(***************************************************************************)
EXTENDS Integers, Sequences, FiniteSets, Bags, TLC

\* ------------------------------------------------------------------ bounds

\* Bounds of the table contents explored by SpecRecon.
MaxOrderId == 3

MaxDate == 2

MaxOrderRows == 3

MaxItemRows == 2

\* Number of reconcile_and_cleanup calls made in a row.
MaxReconcileRuns == 2

\* total_amount values; only equality of amounts is read by the SQL.
Amounts == {100, 250}

Dates == 1..MaxDate

\* Order ids of rows written by writers outside the modelled run; an order_id
\* is a pair <<writer, serial>>, writer -1 standing for any earlier writer.
LoadedIds == {<<-1, k>> : k \in 1..MaxOrderId}

LoadedOrderRows == [order_id : LoadedIds, order_date : Dates, total_amount : Amounts]

\* Bounds of the orchestrator runs explored by Spec.
MaxTotalOrders == 2

MaxInstances == 2

MaxCustomerId == 2

MaxBatchSize == 2

MaxItemsPerOrder == 1

\* Calls that raise (append_rows, a constructor, the max-id query) per run of Spec.
MaxFaults == 5

\* append_rows calls that commit their rows upstream and still raise.
MaxLostAcks == 1

\* Bounds of the keyword arguments of the wrapper calls explored by SpecWrapper.
MaxInitialDelay == 2

MaxMaxDelay == 4

MaxWrapperRetries == 5

\* Bounds of the one-partition runs explored by SpecDriver.
DriverMaxOrders == 2

DriverMaxBatchSize == 2

DriverMaxFaults == 4

DriverMaxLostAcks == 1

\* Bounds of the runs explored by SpecTerm: orders.batch.size is drawn from
\* -MaxNegBatchSize..TermMaxBatchSize.
TermMaxOrders == 2

TermMaxBatchSize == 1

MaxNegBatchSize == 1

TermMaxInstances == 2

TermMaxFaults == 4

TermMaxCloseFaults == 1

\* Batches one driver may count before the model stops following it; only a
\* driver whose batches do not advance it towards num_orders gets that far.
MaxBatches == 3

\* Bounds of the runs of the single-instance main explored by SpecSingle.
SingleMaxOrders == 1

SingleMaxBatchSize == 1

SingleMaxCustomerId == 1

SingleMaxFaults == 2

SingleMaxCloseFaults == 1

\* Bounds of the partitionings explored by SpecPart.
PartMaxTotalOrders == 7

PartMaxInstances == 4

PartMaxCustomerId == 6

\* ------------------------------------------------------ program constants

\* max_retries of PartitionedStreamingApp.generate_and_stream_orders.
driver_max_retries == 3

\* max_retries, initial_delay, max_delay of _insert_with_backpressure_retry.
wrapper_max_retries == 5

\* Positional parameters of DataGenerator.generate_order, and the arguments
\* the single-instance driver passes to it.
generate_order_parameters == 1

single_generate_order_arguments == 2

initial_delay == 1

max_delay == 30

VARIABLES
    orders,        \* ORDERS table: bag of [order_id, order_date, total_amount]
    items,         \* ORDER_ITEMS table: bag of order_id (one copy per item row)
    rpc,           \* position inside reconcile_and_cleanup
    stats,         \* the stats dict of the current / last call
    runs,          \* number of reconcile_and_cleanup calls begun
    entryOrders,   \* ORDERS as it was when the current call began
    entryItems,    \* ORDER_ITEMS as it was when the current call began
    customers,     \* MAX(CUSTOMER_ID) of RAW.CUSTOMERS, 0 for an empty table
    batch_size,    \* the configured orders.batch.size
    orch,          \* locals of ParallelStreamingOrchestrator.main
    inst,          \* per instance: locals of _run_streaming_instance and its driver
    acked,         \* items per order_id of the batches counted in processed_orders
    faultsLeft,    \* calls that may still raise in this run
    lostAcksLeft,  \* append_rows calls that may still commit and raise
    wr,            \* locals of one _insert_with_backpressure_retry call on its own
    app,           \* locals of the single-instance main and its driver
    closeFaultsLeft \* close calls of a channel or client that may still raise

tableVars == <<orders, items>>

reconVars == <<rpc, stats, runs, entryOrders, entryItems>>

ingestVars == <<customers, batch_size, orch, inst, acked, faultsLeft, lostAcksLeft, wr, app,
               closeFaultsLeft>>

vars == <<orders, items, rpc, stats, runs, entryOrders, entryItems,
          customers, batch_size, orch, inst, acked, faultsLeft, lostAcksLeft, wr, app,
          closeFaultsLeft>>

\* ------------------------------------------------------------ bag helpers

Copies(b, x) == IF x \in DOMAIN b THEN b[x] ELSE 0

AddRow(b, x) == b (+) SetToBag({x})

\* The bag b without any copy of the elements of S (DELETE ... WHERE row IN S).
DeleteRows(b, S) == [x \in (DOMAIN b) \ S |-> b[x]]

\* cursor.rowcount of a DELETE that removes every copy of the elements of S.
RowCount(b, S) == BagCardinality([x \in (DOMAIN b) \cap S |-> b[x]])

OrderIdsOf(o) == {r.order_id : r \in DOMAIN o}

RowsOfId(o, id) == {r \in DOMAIN o : r.order_id = id}

\* ------------------------------------------------ orchestrator: main

Min(a, b) == IF a <= b THEN a ELSE b

Instances == 0..(orch.num_instances - 1)

\* ------------------------------ SnowpipeStreamingManager: its resources

\* The two clients and two channels of one manager.
Resources == {"orders_client", "order_items_client", "orders_channel", "order_items_channel"}

Channels == {"orders_channel", "order_items_channel"}

\* __init__, lines 35-59: the order in which they are opened.
ConstructionOrder ==
    <<"orders_client", "order_items_client", "orders_channel", "order_items_channel">>

\* close, lines 244-253: the order in which they are closed.
CloseOrder ==
    <<"orders_channel", "order_items_channel", "orders_client", "order_items_client">>

\* What __init__ has opened when its k-th opening call raises; the caller's
\* variable stays None, so close() is never called on these.
OpenedBefore(k) == {ConstructionOrder[j] : j \in 1..(k - 1)}

\* What close() leaves open: nothing when no close call raises (k = 0); when
\* the k-th raises, the except clause of lines 256-257 ends the method and
\* the k-th and the later ones are not closed.
LeftOpen(k) == IF k = 0 THEN {} ELSE {CloseOrder[j] : j \in k..4}

\* The steps at which a constructor (0: none, it returns) or a close()
\* (0: none) can raise.
RaisingSteps == 0..4

\* Line 20: the suffix of the channel names of a manager.
ChannelSuffix(instance_id) ==
    IF instance_id >= 0 THEN <<"_instance_", instance_id>> ELSE << >>

\* Lines 51-59: the pipe and the name a channel of a manager is opened with.
ChannelPipe(channel) ==
    IF channel = "orders_channel" THEN "pipe.orders.name" ELSE "pipe.order_items.name"

ChannelName(channel, instance_id) ==
    <<IF channel = "orders_channel" THEN "channel.orders.name" ELSE "channel.order_items.name">>
        \o ChannelSuffix(instance_id)

\* A close() of a manager that was constructed may raise in its k-th call.
CloseAllowed(k, constructed) == k > 0 => (constructed /\ closeFaultsLeft > 0)

CloseCounted(k) == closeFaultsLeft' = IF k > 0 THEN closeFaultsLeft - 1 ELSE closeFaultsLeft

InitOrch(total, n) ==
    [pc |-> "start", total_orders |-> total, num_instances |-> n,
     max_customer_id |-> 0, orders_per_instance |-> 0, customer_range_size |-> 0,
     i |-> 0, collected |-> {},
     total_orders_generated |-> 0, successful_instances |-> 0,
     failed_instances |-> 0, exit_code |-> -1,
     \* the clients and channels of the probe's temp_manager that are open
     probe_open |-> {}]

NoResult == [returned |-> FALSE, success |-> FALSE, orders_generated |-> 0]

InitInstance ==
    [pc |-> "unsubmitted", num_orders |-> 0,
     customer_id_start |-> 0, customer_id_end |-> 0,
     processed_orders |-> 0, current_batch_size |-> 0, retry_count |-> 0,
     attempt |-> 0, delay |-> 0,
     order_batch |-> {}, all_order_items |-> EmptyBag, serial |-> 0,
     failed_calls |-> 0, result |-> NoResult,
     \* streaming_manager is not None, and the clients and channels of the
     \* instance that are open
     constructed |-> FALSE, open |-> {},
     \* what the instance did for the batch at hand, kept for the properties:
     \* generations, insert_orders / insert_order_items calls, whether an
     \* append raised a hard error, the last time.sleep of the retry loop;
     \* the ATOMICITY VIOLATION warnings logged;
     \* and over the whole run: batches counted and the call that raised last
     generated |-> 0, order_inserts |-> 0, item_inserts |-> 0,
     hard_error |-> FALSE, outer_sleep |-> 0, atomicity_logged |-> 0,
     batches_done |-> 0, failed_at |-> "none"]

\* SnowpipeStreamingManager.get_max_customer_id: max_id starts at 1 and is
\* replaced only by a truthy MAX(CUSTOMER_ID); an empty table (NULL) keeps 1.
get_max_customer_id(max_in_table) == IF max_in_table # 0 THEN max_in_table ELSE 1

\* Mutant of OrdersForInstance: the last instance gets no remainder.
OrdersForInstanceNoRemainder(total, n, i) == total \div n

\* orders_for_this_instance of instance i.
OrdersForInstance(total, n, i) ==
    IF i = n - 1 THEN total - ((total \div n) * i) ELSE total \div n

\* customer_id_start of instance i.
CustomerIdStart(max_id, n, i) == (i * (max_id \div n)) + 1

\* Mutant of CustomerIdEnd: the last range does not absorb the remainder.
CustomerIdEndNoRemainder(max_id, n, i) == (i + 1) * (max_id \div n)

\* customer_id_end of instance i.
CustomerIdEnd(max_id, n, i) ==
    IF i = n - 1 THEN max_id ELSE (i + 1) * (max_id \div n)

\* main, lines 29-36 with _get_max_customer_id, lines 161-168: the probe's
\* manager is constructed, queried and closed in the finally clause, then the
\* two divisions; a raising constructor or query is caught by main's except
\* clause, which exits with 1.
Probe ==
    /\ orch.pc = "start"
    /\ \E ctor \in RaisingSteps, query_raises \in BOOLEAN, cl \in RaisingSteps :
         /\ ctor > 0 => (~query_raises /\ cl = 0)
         /\ (ctor > 0 \/ query_raises) => faultsLeft > 0
         /\ CloseAllowed(cl, ctor = 0)
         /\ CloseCounted(cl)
         /\ faultsLeft' = IF ctor > 0 \/ query_raises THEN faultsLeft - 1 ELSE faultsLeft
         /\ orch' = IF ctor > 0
                    THEN [orch EXCEPT !.pc = "exited", !.exit_code = 1,
                                      !.probe_open = OpenedBefore(ctor)]
                    ELSE IF query_raises
                    THEN [orch EXCEPT !.pc = "exited", !.exit_code = 1,
                                      !.probe_open = LeftOpen(cl)]
                    ELSE [orch EXCEPT
                            !.max_customer_id = get_max_customer_id(customers),
                            !.orders_per_instance = orch.total_orders \div orch.num_instances,
                            !.customer_range_size =
                                get_max_customer_id(customers) \div orch.num_instances,
                            !.probe_open = LeftOpen(cl),
                            !.pc = "submit"]
    /\ UNCHANGED <<tableVars, reconVars, customers, batch_size, inst, acked, lostAcksLeft, wr, app>>

\* main, lines 41-72: one iteration of the submit loop.
SubmitInstance ==
    /\ orch.pc = "submit"
    /\ LET i == orch.i
           n == orch.num_instances
       IN /\ inst' = [inst EXCEPT ![i] =
                        [@ EXCEPT !.pc = "start",
                                  !.num_orders = OrdersForInstance(orch.total_orders, n, i),
                                  !.customer_id_start = CustomerIdStart(orch.max_customer_id, n, i),
                                  !.customer_id_end = CustomerIdEnd(orch.max_customer_id, n, i)]]
          /\ orch' = [orch EXCEPT !.i = i + 1,
                                  !.pc = IF i + 1 = n THEN "collect" ELSE "submit"]
    /\ UNCHANGED <<tableVars, reconVars, customers, batch_size, acked, faultsLeft, lostAcksLeft, wr, app, closeFaultsLeft>>

\* Mutant of AllCollected: the loop also ends at the first failed result.
AllCollectedOrFailed == orch.collected = Instances \/ orch.failed_instances > 0

\* as_completed has yielded every future.
AllCollected == orch.collected = Instances

\* Mutant of CollectResult: the success flag of the result is not read.
CollectResultIgnoringSuccess(w) ==
    /\ orch.pc = "collect"
    /\ w \notin orch.collected
    /\ inst[w].pc = "done"
    /\ orch' = [orch EXCEPT
                  !.collected = @ \cup {w},
                  !.total_orders_generated = @ + inst[w].result.orders_generated,
                  !.successful_instances = @ + 1]
    /\ UNCHANGED <<tableVars, reconVars, customers, batch_size, inst, acked, faultsLeft, lostAcksLeft, wr, app, closeFaultsLeft>>

\* main, lines 78-96: as_completed yields a finished future.
CollectResult(w) ==
    /\ orch.pc = "collect"
    /\ w \notin orch.collected
    /\ inst[w].pc = "done"
    /\ orch' = IF inst[w].result.success
               THEN [orch EXCEPT
                       !.collected = @ \cup {w},
                       !.total_orders_generated = @ + inst[w].result.orders_generated,
                       !.successful_instances = @ + 1]
               ELSE [orch EXCEPT
                       !.collected = @ \cup {w},
                       !.failed_instances = @ + 1]
    /\ UNCHANGED <<tableVars, reconVars, customers, batch_size, inst, acked, faultsLeft, lostAcksLeft, wr, app, closeFaultsLeft>>

\* main, lines 98-106: the report and the exit status.
Report ==
    /\ orch.pc = "collect"
    /\ AllCollected
    /\ orch' = [orch EXCEPT !.pc = "exited",
                            !.exit_code = IF orch.failed_instances > 0 THEN 1 ELSE 0]
    /\ UNCHANGED <<tableVars, reconVars, customers, batch_size, inst, acked, faultsLeft, lostAcksLeft, wr, app, closeFaultsLeft>>

\* ------------------------------- worker: _run_streaming_instance + driver

\* _run_streaming_instance, lines 125-133: the manager's constructor opens the
\* clients and channels of the instance; if it raises, the except clause runs.
StartInstance(w) ==
    /\ inst[w].pc = "start"
    /\ \E ctor \in RaisingSteps :
         /\ ctor > 0 => faultsLeft > 0
         /\ faultsLeft' = IF ctor > 0 THEN faultsLeft - 1 ELSE faultsLeft
         /\ inst' = [inst EXCEPT ![w] =
                       IF ctor = 0
                       THEN [@ EXCEPT !.pc = "loop", !.processed_orders = 0,
                                      !.constructed = TRUE, !.open = Resources]
                       ELSE [@ EXCEPT !.pc = "except", !.failed_calls = @ + 1,
                                      !.failed_at = "constructor",
                                      !.open = OpenedBefore(ctor)]]
    /\ UNCHANGED <<tableVars, reconVars, customers, batch_size, orch, acked, lostAcksLeft, wr, app,
                   closeFaultsLeft>>

\* generate_and_stream_orders, lines 196-200: the outer while test.
NextBatch(w) ==
    /\ inst[w].pc = "loop"
    /\ inst[w].processed_orders < inst[w].num_orders => inst[w].batches_done < MaxBatches
    /\ LET r == inst[w]
       IN inst' = [inst EXCEPT ![w] =
                     IF r.processed_orders < r.num_orders
                     THEN [r EXCEPT !.current_batch_size =
                                        Min(batch_size, r.num_orders - r.processed_orders),
                                    !.retry_count = 0,
                                    !.generated = 0, !.order_inserts = 0,
                                    !.item_inserts = 0, !.hard_error = FALSE,
                                    !.outer_sleep = 0, !.atomicity_logged = 0,
                                    !.pc = "generate"]
                     ELSE [r EXCEPT !.pc = "return"]]
    /\ UNCHANGED <<tableVars, reconVars, customers, batch_size, orch, acked, faultsLeft, lostAcksLeft, wr, app, closeFaultsLeft>>

\* order_date and total_amount of the generated orders.  The order_id of a
\* generated order is a fresh uuid4, so no two generated orders share an
\* order_id and the other two columns of a generated row are never compared
\* with those of a different order: one value of each stands for the draw.
GeneratedDates == {1}

GeneratedAmounts == {100}

\* DataGenerator.random_customer_id_in_range raises on this range.
InvalidCustomerRange(lo, hi) == lo <= 0 \/ hi < lo

\* The order rows of a batch of k orders of writer w with fresh (uuid4)
\* order_ids after serial, dates d[j] and amounts a[j].
BatchOrders(w, serial, k, d, a) ==
    {[order_id |-> <<w, serial + j>>, order_date |-> d[j], total_amount |-> a[j]] : j \in 1..k}

\* The item rows of that batch: c[j] items for the j-th order.
BatchItems(w, serial, k, c) ==
    [id \in {<<w, serial + j>> : j \in 1..k} |-> c[id[2] - serial]]

\* generate_and_stream_orders, lines 201-217: the batch is generated inside
\* the retry loop, so every attempt draws new orders and items; range(k) is
\* empty for k <= 0 and the batch is then two empty lists.
GenerateBatch(w) ==
    /\ inst[w].pc = "generate"
    /\ LET r == inst[w]
           k == r.current_batch_size
       IN IF k > 0 /\ InvalidCustomerRange(r.customer_id_start, r.customer_id_end)
          THEN inst' = [inst EXCEPT ![w] = [@ EXCEPT !.pc = "handler", !.failed_calls = @ + 1,
                                                        !.failed_at = "generate"]]
          ELSE \E d \in [1..k -> GeneratedDates], a \in [1..k -> GeneratedAmounts],
                  c \in [1..k -> 1..MaxItemsPerOrder] :
                 inst' = [inst EXCEPT ![w] =
                            [@ EXCEPT !.order_batch = BatchOrders(w, r.serial, k, d, a),
                                      !.all_order_items = BatchItems(w, r.serial, k, c),
                                      !.serial = @ + (IF k > 0 THEN k ELSE 0),
                                      !.generated = @ + 1,
                                      !.attempt = 0,
                                      !.delay = initial_delay,
                                      !.pc = "insert_orders"]]
    /\ UNCHANGED <<tableVars, reconVars, customers, batch_size, orch, acked, faultsLeft, lostAcksLeft, wr, app, closeFaultsLeft>>

\* What one channel.append_rows call can do: return, raise a
\* ReceiverSaturated / 429 StreamingIngestError, or raise anything else.
AppendOutcomes == {"ok", "saturated", "error"}

\* Mutant of WrapperStep: every raising append_rows call is retried.
WrapperStepRetryAll(outcome, attempt, retries) ==
    IF outcome = "ok" THEN "return"
    ELSE IF attempt < retries - 1 THEN "retry"
    ELSE "raise"

\* _insert_with_backpressure_retry, lines 197-233: the wrapper after one
\* append_rows call with this outcome, in iteration attempt of
\* range(retries): "return", "retry" (sleep and continue) or "raise".
WrapperStep(outcome, attempt, retries) ==
    IF outcome = "ok" THEN "return"
    ELSE IF outcome = "saturated" /\ attempt < retries - 1 THEN "retry"
    ELSE "raise"

\* The wrapper as the two insert methods call it, with the default max_retries.
WrapperDecision(outcome, attempt) == WrapperStep(outcome, attempt, wrapper_max_retries)

\* The fault budget of one append_rows call with this outcome that did or did
\* not commit its rows upstream.
AppendAllowed(outcome, committed) ==
    /\ (outcome = "ok") => committed
    /\ (outcome # "ok") => faultsLeft > 0
    /\ (outcome # "ok" /\ committed) => lostAcksLeft > 0

AppendCounted(outcome, committed) ==
    /\ faultsLeft' = IF outcome # "ok" THEN faultsLeft - 1 ELSE faultsLeft
    /\ lostAcksLeft' = IF outcome # "ok" /\ committed THEN lostAcksLeft - 1 ELSE lostAcksLeft

\* Mutant of NextDelay: the doubled delay is not capped.
NextDelayUncapped(delay, cap) == delay * 2

\* Line 218: delay = min(delay * 2, max_delay).
NextDelay(delay, cap) == Min(delay * 2, cap)

\* The locals of the wrapper call after a "retry": sleep(delay), then double.
WrapperRetry(r) ==
    [r EXCEPT !.attempt = @ + 1, !.delay = NextDelay(@, max_delay)]

\* Mutant of AppendOrders: a raising insert_orders is logged and the driver
\* goes on to insert_order_items.
AppendOrdersThenItems(w) ==
    /\ inst[w].pc = "insert_orders"
    /\ \E outcome \in AppendOutcomes, committed \in BOOLEAN :
         /\ inst[w].order_batch = {} => outcome = "ok"
         /\ AppendAllowed(outcome, committed)
         /\ AppendCounted(outcome, committed)
         /\ orders' = IF committed THEN orders (+) SetToBag(inst[w].order_batch) ELSE orders
         /\ LET dec == WrapperDecision(outcome, inst[w].attempt)
                called == [inst[w] EXCEPT !.order_inserts =
                                              IF inst[w].attempt = 0 THEN @ + 1 ELSE @]
            IN inst' = [inst EXCEPT ![w] =
                 IF dec = "retry" THEN WrapperRetry(called)
                 ELSE [called EXCEPT !.pc = "insert_items", !.attempt = 0, !.delay = initial_delay]]
    /\ UNCHANGED <<items, reconVars, customers, batch_size, orch, acked, wr, app, closeFaultsLeft>>

\* insert_orders, lines 139-153 with lines 220-224 of the driver: one
\* append_rows call on the orders channel; for an empty list the method
\* returns at line 141 without a call, which is the "ok" outcome with no row.
AppendOrders(w) ==
    /\ inst[w].pc = "insert_orders"
    /\ \E outcome \in AppendOutcomes, committed \in BOOLEAN :
         /\ inst[w].order_batch = {} => outcome = "ok"
         /\ AppendAllowed(outcome, committed)
         /\ AppendCounted(outcome, committed)
         /\ orders' = IF committed THEN orders (+) SetToBag(inst[w].order_batch) ELSE orders
         /\ LET dec == WrapperDecision(outcome, inst[w].attempt)
                called == [inst[w] EXCEPT !.order_inserts =
                                              IF inst[w].attempt = 0 THEN @ + 1 ELSE @]
            IN inst' = [inst EXCEPT ![w] =
                 IF dec = "return"
                 THEN [called EXCEPT !.pc = "insert_items", !.attempt = 0, !.delay = initial_delay]
                 ELSE IF dec = "retry" THEN WrapperRetry(called)
                 ELSE [called EXCEPT !.pc = "handler", !.failed_calls = @ + 1,
                                     !.failed_at = "orders",
                                     !.hard_error = @ \/ outcome = "error"]]
    /\ UNCHANGED <<items, reconVars, customers, batch_size, orch, acked, wr, app, closeFaultsLeft>>

\* insert_order_items, lines 155-169 with lines 226-242 of the driver: one
\* append_rows call on the order_items channel; on return the batch counts,
\* and whenever insert_order_items raises the driver logs the ATOMICITY
\* VIOLATION warning (lines 228-234) before its except clause runs.  For an
\* empty list the method returns at line 157 without a call.
AppendItems(w) ==
    /\ inst[w].pc = "insert_items"
    /\ \E outcome \in AppendOutcomes, committed \in BOOLEAN :
         /\ inst[w].all_order_items = EmptyBag => outcome = "ok"
         /\ AppendAllowed(outcome, committed)
         /\ AppendCounted(outcome, committed)
         /\ items' = IF committed THEN items (+) inst[w].all_order_items ELSE items
         /\ LET dec == WrapperDecision(outcome, inst[w].attempt)
                called == [inst[w] EXCEPT !.item_inserts =
                                              IF inst[w].attempt = 0 THEN @ + 1 ELSE @]
            IN /\ inst' = [inst EXCEPT ![w] =
                    IF dec = "return"
                    THEN [called EXCEPT !.pc = "loop",
                                        !.processed_orders = @ + inst[w].current_batch_size,
                                        !.batches_done = @ + 1]
                    ELSE IF dec = "retry" THEN WrapperRetry(called)
                    ELSE [called EXCEPT !.pc = "handler", !.failed_calls = @ + 1,
                                        !.failed_at = "items",
                                        !.atomicity_logged = @ + 1,
                                        !.hard_error = @ \/ outcome = "error"]]
               /\ acked' = IF dec = "return"
                           THEN acked (+) inst[w].all_order_items
                           ELSE acked
    /\ UNCHANGED <<orders, reconVars, customers, batch_size, orch, wr, app, closeFaultsLeft>>

\* Mutant of HandleBatchFailure: one more retry is allowed.
HandleBatchFailureOneMore(w) ==
    /\ inst[w].pc = "handler"
    /\ inst' = [inst EXCEPT ![w] =
                  IF @.retry_count + 1 > driver_max_retries + 1
                  THEN [@ EXCEPT !.retry_count = @ + 1, !.pc = "except"]
                  ELSE [@ EXCEPT !.retry_count = @ + 1, !.outer_sleep = inst[w].retry_count + 1,
                                 !.pc = "generate"]]
    /\ UNCHANGED <<tableVars, reconVars, customers, batch_size, orch, acked, faultsLeft, lostAcksLeft, wr, app, closeFaultsLeft>>

\* Mutant of HandleBatchFailure: a failed attempt counts its batch as well.
HandleBatchFailureCounting(w) ==
    /\ inst[w].pc = "handler"
    /\ inst' = [inst EXCEPT ![w] =
                  IF @.retry_count + 1 > driver_max_retries
                  THEN [@ EXCEPT !.retry_count = @ + 1, !.pc = "except"]
                  ELSE [@ EXCEPT !.retry_count = @ + 1, !.outer_sleep = inst[w].retry_count + 1,
                                 !.processed_orders = @ + inst[w].current_batch_size,
                                 !.pc = "generate"]]
    /\ UNCHANGED <<tableVars, reconVars, customers, batch_size, orch, acked, faultsLeft, lostAcksLeft, wr, app, closeFaultsLeft>>

\* Mutant of HandleBatchFailure: a batch that exhausted its retries is skipped.
HandleBatchFailureSkipping(w) ==
    /\ inst[w].pc = "handler"
    /\ inst' = [inst EXCEPT ![w] =
                  IF @.retry_count + 1 > driver_max_retries
                  THEN [@ EXCEPT !.retry_count = @ + 1,
                                 !.processed_orders = @ + inst[w].current_batch_size,
                                 !.pc = "loop"]
                  ELSE [@ EXCEPT !.retry_count = @ + 1, !.outer_sleep = inst[w].retry_count + 1,
                                 !.pc = "generate"]]
    /\ UNCHANGED <<tableVars, reconVars, customers, batch_size, orch, acked, faultsLeft, lostAcksLeft, wr, app, closeFaultsLeft>>

\* generate_and_stream_orders, lines 244-256: the except clause of the retry
\* loop.
HandleBatchFailure(w) ==
    /\ inst[w].pc = "handler"
    /\ inst' = [inst EXCEPT ![w] =
                  IF @.retry_count + 1 > driver_max_retries
                  THEN [@ EXCEPT !.retry_count = @ + 1, !.pc = "except"]
                  ELSE [@ EXCEPT !.retry_count = @ + 1, !.outer_sleep = inst[w].retry_count + 1,
                                 !.pc = "generate"]]
    /\ UNCHANGED <<tableVars, reconVars, customers, batch_size, orch, acked, faultsLeft, lostAcksLeft, wr, app, closeFaultsLeft>>

\* The result dict of _run_streaming_instance: orders_generated is assigned
\* only when generate_and_stream_orders returns.
InstanceResult(r) ==
    IF r.pc = "return"
    THEN [returned |-> TRUE, success |-> TRUE, orders_generated |-> r.processed_orders]
    ELSE [returned |-> TRUE, success |-> FALSE, orders_generated |-> 0]

\* _run_streaming_instance, lines 135-158: the return of either branch and
\* the finally clause, which calls close() when streaming_manager is not
\* None; the future is done.
FinishInstance(w) ==
    /\ inst[w].pc \in {"return", "except"}
    /\ \E cl \in RaisingSteps :
         /\ CloseAllowed(cl, inst[w].constructed)
         /\ CloseCounted(cl)
         /\ inst' = [inst EXCEPT ![w] =
                       [@ EXCEPT !.result = InstanceResult(inst[w]),
                                 !.open = IF inst[w].constructed THEN LeftOpen(cl) ELSE @,
                                 !.pc = "done"]]
    /\ UNCHANGED <<tableVars, reconVars, customers, batch_size, orch, acked, faultsLeft, lostAcksLeft, wr, app>>

\* No writer is active: the process that was started, the orchestrator or
\* the single-instance main, has exited.
WritersQuiesced == orch.pc \in {"none", "exited"} /\ app.pc \in {"none", "exited"}

\* ------------------------- one _insert_with_backpressure_retry call alone

\* What one channel.append_rows call can do, by the except clause that
\* catches it: return; raise a StreamingIngestError whose text has
\* "ReceiverSaturated" or "429"; raise a StreamingIngestError with another
\* text; raise an exception of another class.
WrapperOutcomes == {"ok", "saturated", "ingest_error", "other_error"}

\* The exception object an append_rows call with this outcome raises; the
\* wrapper's bare raise statements surface this very object to the caller.
ExceptionOf(outcome) ==
    [class |-> IF outcome = "other_error" THEN "Exception" ELSE "StreamingIngestError",
     saturated_text |-> outcome = "saturated"]

NoException == [class |-> "none", saturated_text |-> FALSE]

\* The locals of a call with these keyword arguments, at line 195.
WrapperCall(retries, first, cap) ==
    [pc |-> "loop", max_retries |-> retries, initial_delay |-> first, max_delay |-> cap,
     attempt |-> 0, delay |-> first, outcomes |-> << >>, sleeps |-> << >>,
     raised |-> NoException]

NoWrapperCall ==
    [WrapperCall(wrapper_max_retries, initial_delay, max_delay) EXCEPT !.pc = "none"]

\* Lines 197-233: one iteration of the for loop, one append_rows call.
WrapperAppend ==
    /\ wr.pc = "loop"
    /\ wr.attempt < wr.max_retries
    /\ \E outcome \in WrapperOutcomes :
         LET dec == WrapperStep(outcome, wr.attempt, wr.max_retries)
             called == [wr EXCEPT !.outcomes = Append(@, outcome)]
         IN wr' = IF dec = "return" THEN [called EXCEPT !.pc = "returned"]
                  ELSE IF dec = "retry"
                  THEN [called EXCEPT !.sleeps = Append(@, wr.delay),
                                      !.delay = NextDelay(@, wr.max_delay),
                                      !.attempt = @ + 1]
                  ELSE [called EXCEPT !.pc = "raised", !.raised = ExceptionOf(outcome)]
    /\ UNCHANGED <<tableVars, reconVars, customers, batch_size, orch, inst, acked,
                   faultsLeft, lostAcksLeft, app, closeFaultsLeft>>

\* Line 197 with range(max_retries) exhausted: the function ends without a
\* return or raise statement, which only an empty range allows.
WrapperFallThrough ==
    /\ wr.pc = "loop"
    /\ wr.attempt >= wr.max_retries
    /\ wr' = [wr EXCEPT !.pc = "returned"]
    /\ UNCHANGED <<tableVars, reconVars, customers, batch_size, orch, inst, acked,
                   faultsLeft, lostAcksLeft, app, closeFaultsLeft>>

\* --------------------------------------------------------- reconciliation

ZeroStats ==
    [orphaned_orders_found |-> 0, orphaned_orders_deleted |-> 0,
     orphaned_items_found |-> 0, orphaned_items_deleted |-> 0,
     duplicate_orders_found |-> 0, duplicate_orders_deleted |-> 0,
     final_orders_count |-> 0, final_items_count |-> 0]

\* Step 1 subquery: order_ids of ORDERS rows that join no ORDER_ITEMS row.
OrphanedOrderIds(o, it) == {id \in OrderIdsOf(o) : Copies(it, id) = 0}

\* Step 2 subquery: order_ids of ORDER_ITEMS rows that join no ORDERS row.
OrphanedItemIds(o, it) == {id \in DOMAIN it : id \notin OrderIdsOf(o)}

\* SELECT COUNT(*) - COUNT(DISTINCT order_id) FROM orders.
DuplicateCount(o) == BagCardinality(o) - Cardinality(OrderIdsOf(o))

\* Mutant of RowNumberOneCandidates: ORDER BY order_date DESC.
RowNumberOneCandidatesDesc(o, id) ==
    {r \in RowsOfId(o, id) : \A q \in RowsOfId(o, id) : r.order_date >= q.order_date}

\* The rows ROW_NUMBER() may number 1 in the partition of id: ORDER BY
\* order_date ascending, ties between equal dates broken arbitrarily.
RowNumberOneCandidates(o, id) ==
    {r \in RowsOfId(o, id) : \A q \in RowsOfId(o, id) : r.order_date <= q.order_date}

\* One numbering of the whole table: the row numbered 1 in each partition.
RowNumberings(o) ==
    {f \in [OrderIdsOf(o) -> DOMAIN o] :
        \A id \in OrderIdsOf(o) : f[id] \in RowNumberOneCandidates(o, id)}

\* The (order_id, order_date, total_amount) tuples of the rows numbered > 1:
\* every row but one copy of the row numbered 1 in its partition.
RankedAboveOne(o, f) ==
    {r \in DOMAIN o : o[r] > (IF f[r.order_id] = r THEN 1 ELSE 0)}

ReconcileBegin ==
    /\ rpc \in {"idle", "returned"}
    /\ runs < MaxReconcileRuns
    /\ WritersQuiesced
    /\ rpc' = "orphaned_orders"
    /\ runs' = runs + 1
    /\ stats' = ZeroStats
    /\ entryOrders' = orders
    /\ entryItems' = items
    /\ UNCHANGED <<orders, items, ingestVars>>

DeleteOrphanedOrders ==
    /\ rpc = "orphaned_orders"
    /\ LET gone == {r \in DOMAIN orders : r.order_id \in OrphanedOrderIds(orders, items)}
           n == RowCount(orders, gone)
       IN /\ orders' = DeleteRows(orders, gone)
          /\ stats' = [stats EXCEPT !.orphaned_orders_deleted = n,
                                    !.orphaned_orders_found = n]
    /\ rpc' = "orphaned_items"
    /\ UNCHANGED <<items, runs, entryOrders, entryItems, ingestVars>>

DeleteOrphanedItems ==
    /\ rpc = "orphaned_items"
    /\ LET gone == OrphanedItemIds(orders, items)
           n == RowCount(items, gone)
       IN /\ items' = DeleteRows(items, gone)
          /\ stats' = [stats EXCEPT !.orphaned_items_deleted = n,
                                    !.orphaned_items_found = n]
    /\ rpc' = "check_duplicates"
    /\ UNCHANGED <<orders, runs, entryOrders, entryItems, ingestVars>>

CheckDuplicates ==
    /\ rpc = "check_duplicates"
    /\ stats' = [stats EXCEPT !.duplicate_orders_found = DuplicateCount(orders)]
    /\ rpc' = IF DuplicateCount(orders) > 0 THEN "delete_duplicates" ELSE "final_counts"
    /\ UNCHANGED <<orders, items, runs, entryOrders, entryItems, ingestVars>>

DeleteDuplicates ==
    /\ rpc = "delete_duplicates"
    /\ \E f \in RowNumberings(orders) :
         LET gone == RankedAboveOne(orders, f)
         IN /\ orders' = DeleteRows(orders, gone)
            /\ stats' = [stats EXCEPT !.duplicate_orders_deleted = RowCount(orders, gone)]
    /\ rpc' = "final_counts"
    /\ UNCHANGED <<items, runs, entryOrders, entryItems, ingestVars>>

FinalCounts ==
    /\ rpc = "final_counts"
    /\ stats' = [stats EXCEPT !.final_orders_count = BagCardinality(orders),
                              !.final_items_count = BagCardinality(items)]
    /\ rpc' = "returned"
    /\ UNCHANGED <<orders, items, runs, entryOrders, entryItems, ingestVars>>

\* ------------------------ single-instance main and its driver

\* The locals of main and of AutomatedIntelligenceStreaming
\* .generate_and_stream_orders for a run asked for num orders.
InitApp(num) ==
    [pc |-> "start", num_orders |-> num, max_customer_id |-> 0,
     processed_orders |-> 0, current_batch_size |-> 0, exit_code |-> -1,
     \* streaming_manager is not None, and its clients and channels that are open
     constructed |-> FALSE, open |-> {},
     \* kept for the properties: main reached its reconciliation block, the
     \* block raised, main logged "Reconciliation failed", main called close()
     \* and a close call raised inside it
     reconcile_called |-> FALSE, reconcile_raised |-> FALSE,
     reconcile_logged |-> FALSE, close_called |-> FALSE, close_raised |-> FALSE]

\* The single-instance main is not the process that was started.
NoApp == [InitApp(0) EXCEPT !.pc = "none"]

\* main, lines 139-148: the configuration and the manager's constructor.
SingleStart ==
    /\ app.pc = "start"
    /\ \E ctor \in RaisingSteps :
         /\ ctor > 0 => faultsLeft > 0
         /\ faultsLeft' = IF ctor > 0 THEN faultsLeft - 1 ELSE faultsLeft
         /\ app' = IF ctor = 0
                   THEN [app EXCEPT !.pc = "probe", !.constructed = TRUE, !.open = Resources]
                   ELSE [app EXCEPT !.pc = "except", !.open = OpenedBefore(ctor)]
    /\ UNCHANGED <<tableVars, reconVars, customers, batch_size, orch, inst, acked, lostAcksLeft, wr,
                   closeFaultsLeft>>

\* generate_and_stream_orders, lines 29-43: the max-customer-id query, which
\* may raise, and the check of its result against 0.
SingleProbe ==
    /\ app.pc = "probe"
    /\ \/ /\ app' = IF get_max_customer_id(customers) = 0
                    THEN [app EXCEPT !.max_customer_id = 0, !.pc = "except"]
                    ELSE [app EXCEPT !.max_customer_id = get_max_customer_id(customers),
                                     !.processed_orders = 0, !.pc = "loop"]
          /\ UNCHANGED faultsLeft
       \/ /\ faultsLeft > 0
          /\ faultsLeft' = faultsLeft - 1
          /\ app' = [app EXCEPT !.pc = "except"]
    /\ UNCHANGED <<tableVars, reconVars, customers, batch_size, orch, inst, acked, lostAcksLeft, wr, closeFaultsLeft>>

\* generate_and_stream_orders, lines 45-47 and 122-123, then main, lines
\* 152-158: the while test; when it fails the driver returns and main sleeps.
SingleNextBatch ==
    /\ app.pc = "loop"
    /\ app.processed_orders > -MaxBatches
    /\ app' = IF app.processed_orders < app.num_orders
              THEN [app EXCEPT !.current_batch_size =
                                   Min(batch_size, app.num_orders - app.processed_orders),
                               !.pc = "generate"]
              ELSE [app EXCEPT !.pc = "reconcile"]
    /\ UNCHANGED <<tableVars, reconVars, customers, batch_size, orch, inst, acked,
                   faultsLeft, lostAcksLeft, wr, closeFaultsLeft>>

\* generate_and_stream_orders, lines 49-63: the first iteration of the
\* generation loop calls DataGenerator.generate_order with two arguments; the
\* function takes one, so the call raises TypeError and no insert of a
\* non-empty batch is reached; for current_batch_size <= 0 the loop body does
\* not run and the batch is two empty lists.
SingleGenerateBatch ==
    /\ app.pc = "generate"
    /\ app' = IF /\ app.current_batch_size > 0
                 /\ single_generate_order_arguments # generate_order_parameters
              THEN [app EXCEPT !.pc = "except"]
              ELSE [app EXCEPT !.pc = "insert_orders"]
    /\ UNCHANGED <<tableVars, reconVars, customers, batch_size, orch, inst, acked,
                   faultsLeft, lostAcksLeft, wr, closeFaultsLeft>>

\* generate_and_stream_orders, lines 65-120 for an empty batch: insert_orders
\* and insert_order_items return at once for an empty list, both flags are
\* set and processed_orders grows by current_batch_size.
SingleStreamEmptyBatch ==
    /\ app.pc = "insert_orders"
    /\ app.current_batch_size <= 0
    /\ app' = [app EXCEPT !.processed_orders = @ + app.current_batch_size, !.pc = "loop"]
    /\ UNCHANGED <<tableVars, reconVars, customers, batch_size, orch, inst, acked,
                   faultsLeft, lostAcksLeft, wr, closeFaultsLeft>>

\* main, lines 185-187: the finally clause on the locals a, with close()
\* raising in its k-th call (0: in none).
Finally(a, k) ==
    IF a.constructed
    THEN [a EXCEPT !.open = LeftOpen(k), !.close_called = TRUE, !.close_raised = k > 0]
    ELSE a

\* main, lines 160-162 and 174-180: the reconciliation call begins, or the
\* ReconciliationManager or its connection raises, which main logs before it
\* completes.
SingleReconcile ==
    /\ app.pc = "reconcile"
    /\ \/ /\ rpc' = "orphaned_orders"
          /\ runs' = runs + 1
          /\ stats' = ZeroStats
          /\ entryOrders' = orders
          /\ entryItems' = items
          /\ app' = [app EXCEPT !.pc = "reconciling", !.reconcile_called = TRUE]
          /\ UNCHANGED <<faultsLeft, closeFaultsLeft>>
       \/ /\ faultsLeft > 0
          /\ faultsLeft' = faultsLeft - 1
          /\ \E cl \in RaisingSteps :
               /\ CloseAllowed(cl, app.constructed)
               /\ CloseCounted(cl)
               /\ app' = Finally([app EXCEPT !.pc = "exited", !.exit_code = 0,
                                             !.reconcile_called = TRUE,
                                             !.reconcile_raised = TRUE,
                                             !.reconcile_logged = TRUE], cl)
          /\ UNCHANGED reconVars
    /\ UNCHANGED <<tableVars, customers, batch_size, orch, inst, acked, lostAcksLeft, wr>>

\* main, lines 164-180 and 185-187: reconcile_and_cleanup has returned; main
\* logs, closes the manager and returns.
SingleReconcileReturn ==
    /\ app.pc = "reconciling"
    /\ rpc = "returned"
    /\ \E cl \in RaisingSteps :
         /\ CloseAllowed(cl, app.constructed)
         /\ CloseCounted(cl)
         /\ app' = Finally([app EXCEPT !.pc = "exited", !.exit_code = 0], cl)
    /\ UNCHANGED <<tableVars, reconVars, customers, batch_size, orch, inst, acked,
                   faultsLeft, lostAcksLeft, wr>>

\* Mutant of SingleReconcileRaise: the exception of reconcile_and_cleanup
\* reaches the except clause of line 182 and main exits with 1.
SingleReconcileRaiseFatal ==
    /\ app.pc = "reconciling"
    /\ rpc \in {"orphaned_orders", "orphaned_items", "check_duplicates",
                "delete_duplicates", "final_counts"}
    /\ faultsLeft > 0
    /\ faultsLeft' = faultsLeft - 1
    /\ rpc' = "raised"
    /\ \E cl \in RaisingSteps :
         /\ CloseAllowed(cl, app.constructed)
         /\ CloseCounted(cl)
         /\ app' = Finally([app EXCEPT !.pc = "exited", !.exit_code = 1,
                                       !.reconcile_raised = TRUE], cl)
    /\ UNCHANGED <<tableVars, stats, runs, entryOrders, entryItems, customers, batch_size,
                   orch, inst, acked, lostAcksLeft, wr>>

\* reconcile_and_cleanup, lines 88-164 and 185-187, with main, lines 174-187:
\* the cursor.execute of the step at hand raises, the call ends through its
\* finally clause, main logs the failure in its inner except clause, goes on
\* to the end of the try block and closes the manager.
SingleReconcileRaise ==
    /\ app.pc = "reconciling"
    /\ rpc \in {"orphaned_orders", "orphaned_items", "check_duplicates",
                "delete_duplicates", "final_counts"}
    /\ faultsLeft > 0
    /\ faultsLeft' = faultsLeft - 1
    /\ rpc' = "raised"
    /\ \E cl \in RaisingSteps :
         /\ CloseAllowed(cl, app.constructed)
         /\ CloseCounted(cl)
         /\ app' = Finally([app EXCEPT !.pc = "exited", !.exit_code = 0,
                                       !.reconcile_raised = TRUE,
                                       !.reconcile_logged = TRUE], cl)
    /\ UNCHANGED <<tableVars, stats, runs, entryOrders, entryItems, customers, batch_size,
                   orch, inst, acked, lostAcksLeft, wr>>

\* main, lines 182-187: the except clause, sys.exit(1) and the finally clause.
SingleFail ==
    /\ app.pc = "except"
    /\ \E cl \in RaisingSteps :
         /\ CloseAllowed(cl, app.constructed)
         /\ CloseCounted(cl)
         /\ app' = Finally([app EXCEPT !.pc = "exited", !.exit_code = 1], cl)
    /\ UNCHANGED <<tableVars, reconVars, customers, batch_size, orch, inst, acked,
                   faultsLeft, lostAcksLeft, wr>>

\* ------------------------------------------- SpecRecon: arbitrary tables

\* Rows committed to the two tables by earlier writers, one row at a time,
\* before the first reconciliation call.
LoadOrderRow ==
    /\ rpc = "idle" /\ runs = 0
    /\ BagCardinality(orders) < MaxOrderRows
    /\ \E r \in LoadedOrderRows : orders' = AddRow(orders, r)
    /\ UNCHANGED <<items, rpc, stats, runs, entryOrders, entryItems, ingestVars>>

LoadItemRow ==
    /\ rpc = "idle" /\ runs = 0
    /\ BagCardinality(items) < MaxItemRows
    /\ \E id \in LoadedIds : items' = AddRow(items, id)
    /\ UNCHANGED <<orders, rpc, stats, runs, entryOrders, entryItems, ingestVars>>

InitRecon ==
    /\ customers = 0
    /\ batch_size = 1
    /\ orch = [InitOrch(0, 0) EXCEPT !.pc = "exited"]
    /\ inst = [i \in {} |-> InitInstance]
    /\ acked = EmptyBag
    /\ faultsLeft = 0
    /\ lostAcksLeft = 0
    /\ closeFaultsLeft = 0
    /\ wr = NoWrapperCall
    /\ app = NoApp
    /\ orders = EmptyBag
    /\ items = EmptyBag
    /\ rpc = "idle"
    /\ stats = ZeroStats
    /\ runs = 0
    /\ entryOrders = EmptyBag
    /\ entryItems = EmptyBag

NextRecon ==
    \/ LoadOrderRow
    \/ LoadItemRow
    \/ ReconcileBegin
    \/ DeleteOrphanedOrders
    \/ DeleteOrphanedItems
    \/ CheckDuplicates
    \/ DeleteDuplicates
    \/ FinalCounts

SpecRecon == InitRecon /\ [][NextRecon]_vars

\* ---------- Spec: one run of the orchestrator or of the single-instance main

Init ==
    /\ orders = EmptyBag
    /\ items = EmptyBag
    /\ rpc = "idle"
    /\ stats = ZeroStats
    /\ runs = 0
    /\ entryOrders = EmptyBag
    /\ entryItems = EmptyBag
    /\ customers \in 0..MaxCustomerId
    /\ batch_size \in 1..MaxBatchSize
    /\ \/ \E total \in 0..MaxTotalOrders, n \in 1..MaxInstances :
            /\ orch = InitOrch(total, n)
            /\ inst = [i \in 0..(n - 1) |-> InitInstance]
            /\ app = NoApp
       \/ \E num \in 0..MaxTotalOrders :
            /\ orch = [InitOrch(0, 0) EXCEPT !.pc = "none"]
            /\ inst = [i \in {} |-> InitInstance]
            /\ app = InitApp(num)
    /\ acked = EmptyBag
    /\ faultsLeft = MaxFaults
    /\ lostAcksLeft = MaxLostAcks
    /\ closeFaultsLeft = 0
    /\ wr = NoWrapperCall

Next ==
    \/ Probe
    \/ SubmitInstance
    \/ \E w \in Instances : StartInstance(w)
    \/ \E w \in Instances : NextBatch(w)
    \/ \E w \in Instances : GenerateBatch(w)
    \/ \E w \in Instances : AppendOrders(w)
    \/ \E w \in Instances : AppendItems(w)
    \/ \E w \in Instances : HandleBatchFailure(w)
    \/ \E w \in Instances : FinishInstance(w)
    \/ \E w \in Instances : CollectResult(w)
    \/ Report
    \/ SingleStart
    \/ SingleProbe
    \/ SingleNextBatch
    \/ SingleGenerateBatch
    \/ SingleReconcile
    \/ SingleReconcileReturn
    \/ SingleReconcileRaise
    \/ SingleFail
    \/ ReconcileBegin
    \/ DeleteOrphanedOrders
    \/ DeleteOrphanedItems
    \/ CheckDuplicates
    \/ DeleteDuplicates
    \/ FinalCounts

Spec == Init /\ [][Next]_vars

\* --- SpecTerm: runs of either process to its end, with any configured
\* batch size and with constructors, queries, appends, reconciliation steps
\* and close calls that raise.  Every step of the process that was started is
\* eventually taken.  No append commits and raises here, so the tables hold
\* no duplicate and the duplicate cleanup is not reached.

InitTerm ==
    /\ orders = EmptyBag
    /\ items = EmptyBag
    /\ rpc = "idle"
    /\ stats = ZeroStats
    /\ runs = 0
    /\ entryOrders = EmptyBag
    /\ entryItems = EmptyBag
    /\ customers = 1
    /\ batch_size \in (-MaxNegBatchSize)..TermMaxBatchSize
    /\ \/ \E total \in 0..TermMaxOrders, n \in 1..TermMaxInstances :
            /\ orch = InitOrch(total, n)
            /\ inst = [i \in 0..(n - 1) |-> InitInstance]
            /\ app = NoApp
       \/ \E num \in 0..TermMaxOrders :
            /\ orch = [InitOrch(0, 0) EXCEPT !.pc = "none"]
            /\ inst = [i \in {} |-> InitInstance]
            /\ app = InitApp(num)
    /\ acked = EmptyBag
    /\ faultsLeft = TermMaxFaults
    /\ lostAcksLeft = 0
    /\ closeFaultsLeft = TermMaxCloseFaults
    /\ wr = NoWrapperCall

NextTerm ==
    \/ Probe
    \/ SubmitInstance
    \/ \E w \in Instances : StartInstance(w)
    \/ \E w \in Instances : NextBatch(w)
    \/ \E w \in Instances : GenerateBatch(w)
    \/ \E w \in Instances : AppendOrders(w)
    \/ \E w \in Instances : AppendItems(w)
    \/ \E w \in Instances : HandleBatchFailure(w)
    \/ \E w \in Instances : FinishInstance(w)
    \/ \E w \in Instances : CollectResult(w)
    \/ Report
    \/ SingleStart
    \/ SingleProbe
    \/ SingleNextBatch
    \/ SingleGenerateBatch
    \/ SingleStreamEmptyBatch
    \/ SingleReconcile
    \/ SingleReconcileReturn
    \/ SingleReconcileRaise
    \/ SingleFail
    \/ DeleteOrphanedOrders
    \/ DeleteOrphanedItems
    \/ CheckDuplicates
    \/ FinalCounts

SpecTerm == InitTerm /\ [][NextTerm]_vars /\ WF_vars(NextTerm)

\* ------------- SpecSingle: one run of the single-instance main alone

InitSingle ==
    /\ orders = EmptyBag
    /\ items = EmptyBag
    /\ rpc = "idle"
    /\ stats = ZeroStats
    /\ runs = 0
    /\ entryOrders = EmptyBag
    /\ entryItems = EmptyBag
    /\ customers \in 0..SingleMaxCustomerId
    /\ batch_size \in (-MaxNegBatchSize)..SingleMaxBatchSize
    /\ orch = [InitOrch(0, 0) EXCEPT !.pc = "none"]
    /\ inst = [i \in {} |-> InitInstance]
    /\ \E num \in 0..SingleMaxOrders : app = InitApp(num)
    /\ acked = EmptyBag
    /\ faultsLeft = SingleMaxFaults
    /\ lostAcksLeft = 0
    /\ closeFaultsLeft = SingleMaxCloseFaults
    /\ wr = NoWrapperCall

NextSingle ==
    \/ SingleStart
    \/ SingleProbe
    \/ SingleNextBatch
    \/ SingleGenerateBatch
    \/ SingleStreamEmptyBatch
    \/ SingleReconcile
    \/ SingleReconcileReturn
    \/ SingleReconcileRaise
    \/ SingleFail
    \/ DeleteOrphanedOrders
    \/ DeleteOrphanedItems
    \/ CheckDuplicates
    \/ FinalCounts

SpecSingle == InitSingle /\ [][NextSingle]_vars

\* ----------------- SpecDriver: an orchestrator run of one partition

InitDriver ==
    /\ orders = EmptyBag
    /\ items = EmptyBag
    /\ rpc = "idle"
    /\ stats = ZeroStats
    /\ runs = 0
    /\ entryOrders = EmptyBag
    /\ entryItems = EmptyBag
    /\ customers = 1
    /\ batch_size \in 1..DriverMaxBatchSize
    /\ \E total \in 0..DriverMaxOrders :
         /\ orch = InitOrch(total, 1)
         /\ inst = [i \in {0} |-> InitInstance]
    /\ acked = EmptyBag
    /\ faultsLeft = DriverMaxFaults
    /\ lostAcksLeft = DriverMaxLostAcks
    /\ closeFaultsLeft = 0
    /\ wr = NoWrapperCall
    /\ app = NoApp

NextDriver ==
    \/ Probe
    \/ SubmitInstance
    \/ \E w \in Instances : StartInstance(w)
    \/ \E w \in Instances : NextBatch(w)
    \/ \E w \in Instances : GenerateBatch(w)
    \/ \E w \in Instances : AppendOrders(w)
    \/ \E w \in Instances : AppendItems(w)
    \/ \E w \in Instances : HandleBatchFailure(w)
    \/ \E w \in Instances : FinishInstance(w)
    \/ \E w \in Instances : CollectResult(w)
    \/ Report

SpecDriver == InitDriver /\ [][NextDriver]_vars

\* --------------------------------- SpecPart: the partitioning of main

InitPart ==
    /\ orders = EmptyBag
    /\ items = EmptyBag
    /\ rpc = "idle"
    /\ stats = ZeroStats
    /\ runs = 0
    /\ entryOrders = EmptyBag
    /\ entryItems = EmptyBag
    /\ customers \in 0..PartMaxCustomerId
    /\ batch_size = 1
    /\ \E total \in 0..PartMaxTotalOrders, n \in 1..PartMaxInstances :
         /\ orch = InitOrch(total, n)
         /\ inst = [i \in 0..(n - 1) |-> InitInstance]
    /\ acked = EmptyBag
    /\ faultsLeft = 1
    /\ lostAcksLeft = 0
    /\ closeFaultsLeft = 0
    /\ wr = NoWrapperCall
    /\ app = NoApp

NextPart ==
    \/ Probe
    \/ SubmitInstance

SpecPart == InitPart /\ [][NextPart]_vars

\* ------------------------ SpecWrapper: one channel wrapper call alone

InitWrapper ==
    /\ orders = EmptyBag
    /\ items = EmptyBag
    /\ rpc = "idle"
    /\ stats = ZeroStats
    /\ runs = 0
    /\ entryOrders = EmptyBag
    /\ entryItems = EmptyBag
    /\ customers = 0
    /\ batch_size = 1
    /\ orch = [InitOrch(0, 0) EXCEPT !.pc = "exited"]
    /\ inst = [i \in {} |-> InitInstance]
    /\ acked = EmptyBag
    /\ faultsLeft = 0
    /\ lostAcksLeft = 0
    /\ closeFaultsLeft = 0
    /\ \E retries \in 0..MaxWrapperRetries, first \in 1..MaxInitialDelay,
          cap \in (1..MaxMaxDelay) \cup {max_delay} :
         /\ first <= cap
         /\ wr = WrapperCall(retries, first, cap)
    /\ app = NoApp

NextWrapper ==
    \/ WrapperAppend
    \/ WrapperFallThrough

SpecWrapper == InitWrapper /\ [][NextWrapper]_vars

\* ================================================================ claims

\* The three cross-table conditions reconciliation is to restore.
NoOrphanedItems(o, it) == \A id \in DOMAIN it : id \in OrderIdsOf(o)

NoOrphanedOrders(o, it) == \A id \in OrderIdsOf(o) : Copies(it, id) >= 1

NoDuplicateOrders(o) == \A r \in DOMAIN o : o[r] = 1 /\ RowsOfId(o, r.order_id) = {r}

\* C1: when reconcile_and_cleanup has returned on quiesced tables, every
\* item's order_id is in the orders table, every order has at least one item
\* and no order_id is on more than one orders row.
C1_ConsistentAfterReconcile ==
    rpc = "returned" =>
        /\ NoOrphanedItems(orders, items)
        /\ NoOrphanedOrders(orders, items)
        /\ NoDuplicateOrders(orders)

\* The orders rows of id are exactly one row, and it has the earliest
\* order_date that id had in the table before.
KeepsEarliestOne(before, after, id) ==
    /\ BagCardinality([r \in RowsOfId(after, id) |-> after[r]]) = 1
    /\ \A r \in RowsOfId(after, id) :
         /\ r \in DOMAIN before
         /\ \A q \in RowsOfId(before, id) : r.order_date <= q.order_date

\* C2: step 3 (duplicate check and cleanup) leaves exactly one row of every
\* order_id that had a row before it, a row of the earliest order_date,
\* whatever the order_date and total_amount values of its rows.
C2_DedupKeepsOnePerOrderId ==
    [][(rpc \in {"check_duplicates", "delete_duplicates"} /\ rpc' = "final_counts")
          => \A id \in OrderIdsOf(orders) : KeepsEarliestOne(orders, orders', id)]_vars

\* C3: a second reconcile_and_cleanup call right after the first reports
\* zero for the six found/deleted counts and changes neither table.
C3_ReconcileIdempotent ==
    (runs = 2 /\ rpc = "returned") =>
        /\ stats.orphaned_orders_found = 0 /\ stats.orphaned_orders_deleted = 0
        /\ stats.orphaned_items_found = 0 /\ stats.orphaned_items_deleted = 0
        /\ stats.duplicate_orders_found = 0 /\ stats.duplicate_orders_deleted = 0
        /\ orders = entryOrders
        /\ items = entryItems

\* The rows of one order_id all differ in order_date (and no row is there twice).
DatesDiffer(o) ==
    \A r \in DOMAIN o :
        /\ o[r] = 1
        /\ \A q \in RowsOfId(o, r.order_id) : q # r => q.order_date # r.order_date

\* The earliest row of id in o.
EarliestRow(o, id) ==
    CHOOSE r \in RowsOfId(o, id) : \A q \in RowsOfId(o, id) : r.order_date <= q.order_date

\* The orders table with the rows of the order_ids that have no item removed.
WithoutOrphanedOrders(o, it) == [r \in {q \in DOMAIN o : Copies(it, q.order_id) >= 1} |-> o[r]]

\* C5: on tables whose duplicate order rows differ in order_date, the call
\* ends with exactly the earliest row of each order_id that has an item, the
\* items whose order_id is in the original orders table, and found counts
\* equal to the orphaned order rows, the orphaned item rows and the
\* (rows - distinct ids) of the orders left by the orphan removal.
C5_ReconcileResult ==
    (rpc = "returned" /\ DatesDiffer(entryOrders)) =>
        LET kept == {id \in OrderIdsOf(entryOrders) : Copies(entryItems, id) >= 1}
        IN /\ orders = SetToBag({EarliestRow(entryOrders, id) : id \in kept})
           /\ items = [id \in (DOMAIN entryItems) \cap OrderIdsOf(entryOrders) |-> entryItems[id]]
           /\ stats.orphaned_orders_found =
                  BagCardinality(entryOrders)
                      - BagCardinality(WithoutOrphanedOrders(entryOrders, entryItems))
           /\ stats.orphaned_items_found =
                  BagCardinality(entryItems) - BagCardinality(items)
           /\ stats.duplicate_orders_found =
                  DuplicateCount(WithoutOrphanedOrders(entryOrders, entryItems))

\* C5 witness: a returned call whose tables held an orphaned order, an
\* orphaned item and an order_id on two rows of different dates.
C5_Witness ==
    /\ rpc = "returned"
    /\ DatesDiffer(entryOrders)
    /\ stats.orphaned_orders_found = 1
    /\ stats.orphaned_items_found = 1
    /\ stats.duplicate_orders_found = 1
    /\ BagCardinality(orders) = 1

\* C4: after a run and a following reconcile_and_cleanup, every order of a
\* batch that was counted in processed_orders is still in the orders table
\* and all its items are in the items table, also when an append_rows call
\* committed its rows, raised, and the same rows were appended again.
C4_AckedOrdersSurvive ==
    rpc = "returned" =>
        \A id \in DOMAIN acked :
            /\ id \in OrderIdsOf(orders)
            /\ Copies(items, id) >= acked[id]

RECURSIVE SumNumOrders(_)
SumNumOrders(S) ==
    IF S = {} THEN 0
    ELSE LET w == CHOOSE x \in S : TRUE
         IN inst[w].num_orders + SumNumOrders(S \ {w})

\* q is floor(t / n).
IsFloorDiv(q, t, n) == q * n <= t /\ t < (q + 1) * n

\* C6: once every instance is submitted, each of the first N-1 instances has
\* floor(T/N) orders, the last has T - (N-1)*floor(T/N), no assignment is
\* negative and the assignments add up to T.
C6_OrderCountPartition ==
    orch.pc = "collect" =>
        LET t == orch.total_orders
            n == orch.num_instances
        IN /\ \A w \in Instances : w < n - 1 => IsFloorDiv(inst[w].num_orders, t, n)
           /\ \E q \in 0..t : IsFloorDiv(q, t, n) /\ inst[n - 1].num_orders = t - (n - 1) * q
           /\ \A w \in Instances : inst[w].num_orders >= 0
           /\ SumNumOrders(Instances) = t

\* C6 witness: all instances submitted, T not a multiple of N and T < N.
C6_Witness ==
    /\ orch.pc = "collect"
    /\ orch.num_instances = 3
    /\ orch.total_orders = 2
    /\ inst[2].num_orders = 2

CustomerRange(w) == inst[w].customer_id_start..inst[w].customer_id_end

\* C7: for C >= 1 customers and N in [1, C], the N customer-id ranges are
\* non-empty, pairwise disjoint, contiguous in instance order and cover
\* exactly [1, C].
C7_CustomerRangePartition ==
    (orch.pc = "collect" /\ customers >= 1 /\ orch.num_instances <= customers) =>
        /\ \A w \in Instances : inst[w].customer_id_start <= inst[w].customer_id_end
        /\ \A w, v \in Instances : w # v => CustomerRange(w) \cap CustomerRange(v) = {}
        /\ \A w \in Instances :
               w + 1 \in Instances =>
                   inst[w + 1].customer_id_start = inst[w].customer_id_end + 1
        /\ UNION {CustomerRange(w) : w \in Instances} = 1..customers

\* C7 witness: C = 5 customers over N = 3 instances, the last range taking
\* the remainder.
C7_Witness ==
    /\ orch.pc = "collect"
    /\ customers = 5
    /\ orch.num_instances = 3
    /\ CustomerRange(2) = 3..5

\* The instance's future is done with a failure result.
InstanceFailed(w) == inst[w].pc = "done" /\ ~inst[w].result.success

\* C8: an instance none of whose own calls raised ends in success whatever
\* its siblings do, a successful instance reports its full assigned order
\* count, and the final report has successful_instances + failed_instances
\* = N with failed_instances the number of failed instances.
C8_FaultIsolation ==
    /\ \A w \in Instances :
           inst[w].pc = "done" =>
               /\ inst[w].failed_calls = 0 => inst[w].result.success
               /\ inst[w].result.success =>
                      inst[w].result.orders_generated = inst[w].num_orders
    /\ (orch.pc = "exited" /\ orch.i = orch.num_instances) =>
           /\ orch.successful_instances + orch.failed_instances = orch.num_instances
           /\ orch.failed_instances = Cardinality({w \in Instances : InstanceFailed(w)})

\* C8 witness: one instance exhausted its retries on failing inserts, its
\* sibling streamed its order, and the run reported one of each.
C8_Witness ==
    /\ orch.pc = "exited"
    /\ orch.num_instances = 2
    /\ orch.failed_instances = 1
    /\ orch.successful_instances = 1
    /\ \E w \in Instances :
           /\ InstanceFailed(w)
           /\ inst[w].retry_count > driver_max_retries
           /\ inst[w].serial > 0
    /\ \E w \in Instances :
           /\ inst[w].result.success
           /\ inst[w].result.orders_generated = 1

\* C9: the orchestrator never exits while an instance is running, and when
\* an instance has failed it exits with a non-zero status, after every one of
\* the N instances is done.
C9_JoinAllBeforeExit ==
    orch.pc = "exited" =>
        /\ \A w \in Instances : inst[w].pc \in {"unsubmitted", "done"}
        /\ (\E w \in Instances : InstanceFailed(w)) =>
               /\ orch.exit_code # 0
               /\ \A w \in Instances : inst[w].pc = "done"

\* C9 witness: an exit with status 1 after one instance failed and another
\* succeeded.
C9_Witness ==
    /\ orch.pc = "exited"
    /\ orch.exit_code = 1
    /\ \E w \in Instances : InstanceFailed(w)
    /\ \E w \in Instances : inst[w].pc = "done" /\ inst[w].result.success

\* C10: with an empty customer table the run fails before any partition is
\* created, any order is generated or any row is appended.
C10_EmptyCustomersFailFast ==
    customers = 0 =>
        /\ \A w \in Instances : inst[w].pc = "unsubmitted"
        /\ \A w \in Instances : inst[w].serial = 0
        /\ orders = EmptyBag
        /\ items = EmptyBag
        /\ orch.pc = "exited" => orch.exit_code # 0

\* C12: a wrapper call with the default max_retries calls append_rows at most
\* 5 times; every call but the last raised a receiver-saturated error and was
\* followed by one sleep; a returning append_rows is the last call and the
\* wrapper returns; an error of another class is the last call, is raised as
\* it is and is followed by no sleep; a saturated error is raised only by the
\* 5th call.
C12_WrapperRetryProtocol ==
    wr.max_retries = wrapper_max_retries =>
        LET n == Len(wr.outcomes)
        IN /\ n <= 5
           /\ \A i \in 1..(n - 1) : wr.outcomes[i] = "saturated"
           /\ Len(wr.sleeps) = IF wr.pc = "loop" THEN n ELSE n - 1
           /\ wr.pc = "returned" => wr.outcomes[n] = "ok"
           /\ \A i \in 1..n :
                  wr.outcomes[i] = "ok" => i = n /\ wr.pc = "returned"
           /\ \A i \in 1..n :
                  wr.outcomes[i] \in {"ingest_error", "other_error"} =>
                      /\ i = n
                      /\ wr.pc = "raised"
                      /\ wr.raised = ExceptionOf(wr.outcomes[i])
           /\ (wr.pc = "raised" /\ wr.outcomes[n] = "saturated") => n = 5

\* C12 witness: a default call that returned from its 5th append_rows call
\* after four saturated ones and four sleeps.
C12_Witness ==
    /\ wr.max_retries = wrapper_max_retries
    /\ wr.pc = "returned"
    /\ wr.outcomes = <<"saturated", "saturated", "saturated", "saturated", "ok">>
    /\ Len(wr.sleeps) = 4

\* C13: for every initial_delay > 0, max_delay >= initial_delay and
\* max_retries, the delays slept in one wrapper call start at initial_delay,
\* each next one is min(2 * previous, max_delay), they never decrease and
\* never exceed max_delay.
C13_BackoffMonotone ==
    LET n == Len(wr.sleeps)
    IN /\ n >= 1 => wr.sleeps[1] = wr.initial_delay
       /\ \A i \in 1..(n - 1) :
              /\ wr.sleeps[i + 1] = Min(2 * wr.sleeps[i], wr.max_delay)
              /\ wr.sleeps[i] <= wr.sleeps[i + 1]
       /\ \A i \in 1..n : wr.sleeps[i] <= wr.max_delay

\* C13 witness: a call that slept 1, 2, 4 and 4 seconds under a cap of 4.
C13_Witness ==
    /\ wr.max_delay = 4
    /\ wr.sleeps = <<1, 2, 4, 4>>

\* The outcomes of append_rows that are hard errors.
HardOutcomes == {"ingest_error", "other_error"}

\* C14: the failure raised when the last backpressure attempt is exhausted
\* is of a class that no hard error is raised with.
C14_ExhaustionDistinctFromHardError ==
    (wr.pc = "raised" /\ wr.raised.saturated_text) =>
        wr.raised.class \notin {ExceptionOf(o).class : o \in HardOutcomes}

\* The instance is between the start of a batch and its end.
InBatch(w) == inst[w].pc \in {"generate", "insert_orders", "insert_items", "handler"}

\* C11: once an append of a batch has raised a hard error the instance
\* issues no further append for that batch: it is in its except clause or
\* has failed, never back at generating or inserting.
C11_HardErrorNotRetried ==
    \A w \in Instances :
        inst[w].hard_error => inst[w].pc \in {"handler", "except", "done"}

\* C15: for each batch the driver calls the order insert at most 3 times and
\* the item insert at most 3 times, sleeps k seconds after the k-th failed
\* attempt, and stops retrying when the 3rd attempt has failed.
C15_OuterRetryBound ==
    \A w \in Instances :
        /\ inst[w].order_inserts <= 3
        /\ inst[w].item_inserts <= 3
        /\ (InBatch(w) /\ inst[w].retry_count >= 1) =>
               inst[w].outer_sleep = inst[w].retry_count
        /\ inst[w].retry_count >= 3 => ~InBatch(w)

\* C15 as amended: for each batch the driver calls the order insert at most
\* 4 times (max_retries + 1) and the item insert at most 4 times, sleeps k
\* seconds after the k-th failed attempt for k <= 3, and stops retrying when
\* the 4th attempt has failed.
C15_OuterRetryBoundAmended ==
    \A w \in Instances :
        /\ inst[w].order_inserts <= 4
        /\ inst[w].item_inserts <= 4
        /\ (InBatch(w) /\ inst[w].retry_count >= 1) =>
               /\ inst[w].outer_sleep = inst[w].retry_count
               /\ inst[w].outer_sleep <= 3
        /\ inst[w].retry_count >= 4 => ~InBatch(w)
        /\ inst[w].retry_count <= 4

\* C15 witness: an instance that gave up after its 4th order insert of one
\* batch failed, having slept 3 seconds after the 3rd.
C15_Witness ==
    \E w \in Instances :
        /\ inst[w].pc = "except"
        /\ inst[w].retry_count = 4
        /\ inst[w].order_inserts = 4
        /\ inst[w].outer_sleep = 3

\* C16: processed_orders is the total size of the batches whose two inserts
\* returned, whatever the number of failed attempts before, and an instance
\* none of whose batches exhausted its retries ends in success with its full
\* order count.
C16_RetryCountsOnce ==
    \A w \in Instances :
        /\ inst[w].processed_orders =
               Min(inst[w].num_orders, inst[w].batches_done * batch_size)
        /\ (inst[w].pc = "done" /\ inst[w].failed_at # "constructor"
              /\ inst[w].retry_count <= driver_max_retries) =>
               /\ inst[w].result.success
               /\ inst[w].result.orders_generated = inst[w].num_orders

\* C16 witness: an instance that succeeded with one batch whose first two
\* attempts failed and whose third attempt was counted.
C16_Witness ==
    \E w \in Instances :
        /\ inst[w].pc = "done"
        /\ inst[w].result.success
        /\ inst[w].retry_count = 2
        /\ inst[w].generated = 3
        /\ inst[w].batches_done = 1
        /\ inst[w].processed_orders = inst[w].current_batch_size
        /\ inst[w].result.orders_generated = inst[w].current_batch_size

\* C17: when the orchestrator process has exited after all its instances
\* reached a terminal state, reconcile_and_cleanup has been called; when the
\* single-instance main has exited after its driver ran, main has reached its
\* reconciliation block.
C17_ReconcileBeforeExit ==
    /\ (orch.pc = "exited" /\ orch.i = orch.num_instances) => runs >= 1
    /\ (app.pc = "exited" /\ app.max_customer_id > 0) => app.reconcile_called

\* C18: the result of a failed instance carries the number of orders of the
\* batches it had fully streamed.
C18_FailureResultProgress ==
    \A w \in Instances :
        (inst[w].pc = "done" /\ ~inst[w].result.success) =>
            inst[w].result.orders_generated = inst[w].processed_orders

\* C19: a batch is generated at most once, and no order insert is pending
\* for a batch once an item insert has been issued for it.
C19_GenerateOnce ==
    \A w \in Instances :
        /\ inst[w].generated <= 1
        /\ inst[w].pc = "insert_orders" => inst[w].item_inserts = 0

\* The instance's last attempt ended with insert_orders raising.
OrderInsertFailed(w) ==
    /\ inst[w].failed_at = "orders"
    /\ \/ inst[w].pc \in {"handler", "except"}
       \/ inst[w].pc = "done" /\ ~inst[w].result.success

\* C20: an item insert is issued for a batch only when the order rows of
\* that batch are in the orders table by an order insert that returned, so
\* until reconciliation runs no item row is without its order row; no item of
\* a batch whose order insert raised is in the items table.
C20_ParentBeforeChild ==
    /\ \A w \in Instances :
           /\ inst[w].pc = "insert_items" =>
                  \A r \in inst[w].order_batch : Copies(orders, r) >= 1
           /\ inst[w].item_inserts <= inst[w].order_inserts
           /\ OrderInsertFailed(w) =>
                  \A r \in inst[w].order_batch : Copies(items, r.order_id) = 0
    /\ runs = 0 => \A id \in DOMAIN items : id \in OrderIdsOf(orders)

\* C20 witness: an instance failed for good on an order insert whose rows
\* were committed upstream, and none of their items is in the items table,
\* while an earlier batch of the instance has its orders and items in place.
C20_Witness ==
    \E w \in Instances :
        /\ inst[w].pc = "done"
        /\ OrderInsertFailed(w)
        /\ inst[w].batches_done = 1
        /\ \A r \in inst[w].order_batch : Copies(orders, r) >= 1

\* The instance's batch at hand has exhausted the outer retries.
RetriesExhausted(r) == r.retry_count > driver_max_retries

\* C21: when a batch has exhausted the outer retries the driver has raised
\* to its caller (the instance is in its except clause or done with a failure
\* result), and from then on processed_orders is not advanced, no batch is
\* generated and no insert is issued by that instance.
C21_AbortOnExhaustion ==
    [][\A w \in Instances :
          /\ RetriesExhausted(inst'[w]) =>
                 /\ inst'[w].pc \in {"except", "done"}
                 /\ inst'[w].pc = "done" => ~inst'[w].result.success
          /\ RetriesExhausted(inst[w]) =>
                 /\ inst'[w].processed_orders = inst[w].processed_orders
                 /\ inst'[w].serial = inst[w].serial
                 /\ inst'[w].generated = inst[w].generated
                 /\ inst'[w].order_inserts = inst[w].order_inserts
                 /\ inst'[w].item_inserts = inst[w].item_inserts
                 /\ inst'[w].batches_done = inst[w].batches_done]_vars

\* C21 witness: an instance that streamed its first batch, exhausted the
\* retries of the second on failing item inserts and is done with a failure
\* result, its progress still that of the first batch.
C21_Witness ==
    \E w \in Instances :
        /\ inst[w].pc = "done"
        /\ ~inst[w].result.success
        /\ RetriesExhausted(inst[w])
        /\ inst[w].failed_at = "items"
        /\ inst[w].batches_done = 1
        /\ inst[w].processed_orders = 1
        /\ inst[w].num_orders = 2

\* C22: the ATOMICITY VIOLATION warning is logged for a batch only when its
\* item insert has failed in the last attempt the outer retries allow, and
\* then once: no warning is on record while the batch is retried, and a
\* batch whose retries were exhausted by an item insert has exactly one.
C22_AtomicityLoggedOnPermanentFailure ==
    \A w \in Instances :
        /\ inst[w].atomicity_logged >= 1 =>
               /\ inst[w].failed_at = "items"
               /\ \/ inst[w].pc = "handler" /\ inst[w].retry_count = driver_max_retries
                  \/ RetriesExhausted(inst[w])
        /\ (RetriesExhausted(inst[w]) /\ inst[w].failed_at = "items") =>
               inst[w].atomicity_logged = 1

\* C23: processed_orders of a driver is always between 0 and num_orders and
\* never decreases; it changes only in the step in which the item insert of
\* a batch returns, by min(batch_size, num_orders - processed_orders); and the
\* driver returns only with processed_orders = num_orders.
C23_ProgressInvariant ==
    [][/\ \A w \in Instances :
             /\ 0 <= inst'[w].processed_orders
             /\ inst'[w].processed_orders <= inst'[w].num_orders
             /\ inst'[w].processed_orders >= inst[w].processed_orders
             /\ inst'[w].processed_orders # inst[w].processed_orders =>
                    /\ inst[w].pc = "insert_items"
                    /\ inst'[w].processed_orders - inst[w].processed_orders =
                           Min(batch_size, inst[w].num_orders - inst[w].processed_orders)
             /\ inst'[w].pc = "return" =>
                    inst'[w].processed_orders = inst'[w].num_orders
       /\ 0 <= app'.processed_orders
       /\ app'.processed_orders <= app'.num_orders
       /\ app'.processed_orders >= app.processed_orders
       /\ app'.pc = "reconcile" => app'.processed_orders = app'.num_orders]_vars

\* The steps of generate_and_stream_orders of the two drivers.
InPartitionedDriver(w) ==
    /\ w \in DOMAIN inst
    /\ inst[w].pc \in {"loop", "generate", "insert_orders", "insert_items", "handler"}

InSingleDriver == app.pc \in {"probe", "loop", "generate", "insert_orders"}

\* C30: a driver that has been called returns or raises, whatever the
\* configured batch size and however many appends fail.
C30_DriverTerminates ==
    /\ \A w \in 0..(TermMaxInstances - 1) : InPartitionedDriver(w) ~> ~InPartitionedDriver(w)
    /\ InSingleDriver ~> ~InSingleDriver

\* C24: when the reconciliation block of the single-instance main has raised
\* (in the constructor, the connection or any step of reconcile_and_cleanup)
\* after the driver returned, main has logged the failure, exits with status
\* 0 and has called close() on the streaming manager, which has closed every
\* client and channel unless one of its close calls raised.
C24_ReconcileFailureAdvisory ==
    (app.pc = "exited" /\ app.reconcile_raised) =>
        /\ app.processed_orders = app.num_orders
        /\ app.reconcile_logged
        /\ app.exit_code = 0
        /\ app.close_called
        /\ ~app.close_raised => app.open = {}

\* C24 witness: main exited with status 0 after the orphaned-items step of
\* reconcile_and_cleanup raised, the manager closed.
C24_Witness ==
    /\ app.pc = "exited"
    /\ app.reconcile_raised
    /\ runs = 1
    /\ rpc = "raised"
    /\ stats.orphaned_orders_found = 0
    /\ app.exit_code = 0
    /\ app.close_called
    /\ app.open = {}

\* The channels a manager with this instance id holds open.
OpenChannelsOf(instance_id, open) ==
    {[owner |-> instance_id, pipe |-> ChannelPipe(c), name |-> ChannelName(c, instance_id)] :
        c \in open \cap Channels}

\* The open channels of an orchestrator run: the probe's (instance id -1)
\* and the workers'.
OpenChannels ==
    OpenChannelsOf(-1, orch.probe_open)
        \cup UNION {OpenChannelsOf(w, inst[w].open) : w \in Instances}

\* No two open channels of different managers are on the same pipe with the
\* same name, and worker w's names end in _instance_w.
ChannelNamesDistinct ==
    /\ \A a, b \in OpenChannels : (a.pipe = b.pipe /\ a.name = b.name) => a.owner = b.owner
    /\ \A a \in OpenChannels :
           a.owner >= 0 => (Len(a.name) = 3 /\ a.name[2] = "_instance_" /\ a.name[3] = a.owner)

\* C25: during an orchestrator run no two open channels on the same pipe
\* have the same name, worker i's channel names carry the suffix
\* _instance_i, and no channel of the max-customer-id probe is open while a
\* worker holds a channel open.
C25_NoChannelNameCollision ==
    /\ ChannelNamesDistinct
    /\ (\E w \in Instances : inst[w].open \cap Channels # {}) =>
           orch.probe_open \cap Channels = {}

\* C29: when the probe, a worker or the single-instance main has reached its
\* terminal state, none of the clients and channels it opened is open.
C29_ResourcesClosed ==
    /\ orch.pc \notin {"none", "start"} => orch.probe_open = {}
    /\ \A w \in Instances : inst[w].pc = "done" => inst[w].open = {}
    /\ app.pc = "exited" => app.open = {}

\* C26: when the customer table is not empty and there are more instances
\* than customer ids, so that some
\* partition gets an empty or inverted customer-id range, the run fails
\* before any worker constructs its manager, opens a channel or appends a
\* row.
C26_InvalidRangeFailsFast ==
    (/\ orch.pc \notin {"none", "start"}
     /\ customers >= 1
     /\ orch.num_instances > orch.max_customer_id) =>
        /\ \A w \in Instances :
               /\ ~inst[w].constructed
               /\ inst[w].open = {}
               /\ inst[w].order_inserts = 0
        /\ orders = EmptyBag
        /\ items = EmptyBag
        /\ orch.pc = "exited" => orch.exit_code # 0

\* C27: in a reconcile_and_cleanup call the orphaned-orders counts both equal
\* the order rows step 1 removed, the orphaned-items counts both equal the
\* item rows step 2 removed, and in the report duplicate_orders_deleted equals
\* duplicate_orders_found and final_orders_count is the initial number of
\* order rows less orphaned_orders_deleted less duplicate_orders_found.
C27_ReportConsistency ==
    [][/\ (rpc = "orphaned_orders" /\ rpc' = "orphaned_items") =>
             /\ stats'.orphaned_orders_deleted = BagCardinality(orders) - BagCardinality(orders')
             /\ stats'.orphaned_orders_found = stats'.orphaned_orders_deleted
       /\ (rpc = "orphaned_items" /\ rpc' = "check_duplicates") =>
             /\ stats'.orphaned_items_deleted = BagCardinality(items) - BagCardinality(items')
             /\ stats'.orphaned_items_found = stats'.orphaned_items_deleted
       /\ (rpc = "final_counts" /\ rpc' = "returned") =>
             /\ stats'.duplicate_orders_deleted = stats'.duplicate_orders_found
             /\ stats'.final_orders_count =
                    BagCardinality(entryOrders) - stats'.orphaned_orders_deleted
                        - stats'.duplicate_orders_found]_vars

\* The order rows in the table that instance w appended.
OrdersAppendedBy(w) == {r \in DOMAIN orders : r.order_id[1] = w}

\* C28: when no append of the run committed its rows and raised, every order
\* row appended by an instance that ended in success has an item row, until
\* reconciliation runs.
C28_SuccessLeavesNoOrphans ==
    (lostAcksLeft = DriverMaxLostAcks /\ runs = 0) =>
        \A w \in Instances :
            (inst[w].pc = "done" /\ inst[w].result.success) =>
                \A r \in OrdersAppendedBy(w) : Copies(items, r.order_id) >= 1

====
